---- MODULE Spec2Model ----
(***************************************************************************)
(* Model of axlearn/cloud/aws/vm.py (create_vm, get_vm_node,               *)
(* get_vm_node_status, get_vm_node_id) and of is_valid_resource_name in    *)
(* axlearn/cloud/aws/utils.py, together with the part of the EC2 provider  *)
(* those functions talk to: instances (per region, tagged with a name) and *)
(* the security group "axlearn-security-group" (per region).               *)
(*                                                                         *)
(* One operator runs one create_vm call at a time; the provider moves      *)
(* instances through their lifecycle on its own.                           *)
(***************************************************************************)
EXTENDS Integers, Sequences, FiniteSets, TLC

\* ------------------------------------------------------------------ bounds
MaxInstances == 2
MaxSleeps == 2
MaxNameLen == 3
MaxRawInstances == 2

\* --------------------------------------------------------------- alphabet
\* One representative of each character class the pattern distinguishes.
Lower == {"a"}
Digit == {"0"}
Chars == Lower \cup Digit \cup {"-", "A", "_"}

RECURSIVE SeqsUpTo(_, _)
SeqsUpTo(S, n) ==
    IF n = 0 THEN {<<>>}
    ELSE LET shorter == SeqsUpTo(S, n - 1)
         IN  shorter \cup {Append(s, c) : s \in {t \in shorter : Len(t) = n - 1}, c \in S}

AllNames == SeqsUpTo(Chars, MaxNameLen)

\* Names the operator passes to create_vm in the lifecycle specification.
CallNames == {<<"a">>, <<"a", "-", "0">>, <<"A", "_">>}

Regions == {"r1", "r2"}
\* The region boto3.client("ec2") resolves to when no region_name is given.
DefaultRegion == "r1"

\* Instance state names the provider reports.
ProviderStates == {"pending", "running", "shutting-down", "terminated", "stopping", "stopped"}

\* The lifecycle the provider drives an instance through on its own.
Lifecycle == {<<"pending", "running">>, <<"running", "shutting-down">>,
              <<"shutting-down", "terminated">>}

\* Python None, where a reservation is expected.
None == [IsNone |-> TRUE]

\* ------------------------------------------------------------------ state
VARIABLES
    instances,      \* provider: instance id -> [name, region, state]
    groups,         \* provider: regions in which axlearn-security-group exists
    sgCreated,      \* provider log: groups create_security_group created, per region
    sgIngressCalls, \* provider log: authorize_security_group_ingress calls per region
    pc,             \* position of the running create_vm call
    name,           \* create_vm argument
    region,         \* create_vm argument
    attempt,        \* create_vm local
    nodes,          \* get_vm_node local: the Reservations of the response
    node,           \* create_vm local
    backoff_for,    \* create_vm local (0: not assigned)
    instance_id,    \* create_vm local
    result,         \* value returned by create_vm (0: none yet)
    err,            \* exception create_vm raised, and the call that raised it
    sleeps,         \* time.sleep arguments of the running call, in order
    runCalls,       \* run_instances calls issued by the running call
    liveAtCall,     \* ids running under the call's name and region when it started
    rawNode,        \* argument of a direct get_vm_node_status call
    rawStatus       \* its outcome

vars == <<instances, groups, sgCreated, sgIngressCalls, pc, name, region, attempt,
          nodes, node, backoff_for, instance_id, result, err, sleeps, runCalls,
          liveAtCall, rawNode, rawStatus>>

provider == <<instances, groups, sgCreated, sgIngressCalls>>
probe == <<rawNode, rawStatus>>

NoErr == [type |-> "none", at |-> "none"]

Min(a, b) == IF a <= b THEN a ELSE b

\* ------------------------------------------------- is_valid_resource_name
\* vm.py imports the function of this name from axlearn.cloud.gcp.utils; the
\* definition modelled is the one of axlearn/cloud/aws/utils.py.
Alnum == Lower \cup Digit
HyphenAlnum == Alnum \cup {"-"}

\* Positions the matcher can be at after [-a-z0-9]* started at position i.
StarEnds(s, i) == {j \in i..(Len(s) + 1) : \A k \in i..(j - 1) : s[k] \in HyphenAlnum}

\* The pattern without its closing class [a-z0-9]: a trailing hyphen passes.
FullMatchOpenEnd(s) ==
    /\ Len(s) >= 1
    /\ s[1] \in Lower
    /\ Len(s) + 1 \in StarEnds(s, 2)

\* re.fullmatch(r"^[a-z]([-a-z0-9]*[a-z0-9])?", name) is not None
FullMatch(s) ==
    /\ Len(s) >= 1
    /\ s[1] \in Lower
    /\ \/ Len(s) = 1
       \/ \E j \in StarEnds(s, 2) : j = Len(s) /\ s[j] \in Alnum

is_valid_resource_name(n) == FullMatch(n)

\* ------------------------------------------------------ get_vm_node_status
\* A raw reservation is [Instances |-> <<inst, ...>>]; an instance is a record
\* that may lack "State", whose State may lack "Name".
HasStatus(raw) ==
    /\ Len(raw.Instances) >= 1
    /\ "State" \in DOMAIN raw.Instances[1]
    /\ "Name" \in DOMAIN raw.Instances[1].State

StatusError(raw) ==
    IF Len(raw.Instances) = 0 THEN "IndexError" ELSE "KeyError"

\* A status mapper that answers UNKNOWN where the field is missing.
get_vm_node_status_or_unknown(raw) ==
    IF HasStatus(raw)
    THEN [ok |-> TRUE, value |-> raw.Instances[1].State.Name]
    ELSE [ok |-> TRUE, value |-> "UNKNOWN"]

\* node["Instances"][0]["State"]["Name"]
get_vm_node_status(raw) ==
    IF HasStatus(raw)
    THEN [ok |-> TRUE, value |-> raw.Instances[1].State.Name]
    ELSE [ok |-> FALSE, value |-> StatusError(raw)]

\* The reservation the provider returns for instance i: one instance, with
\* its id and state name.
Reservation(i) ==
    [Instances |-> <<[InstanceId |-> i, State |-> [Name |-> instances[i].state]]>>]

\* node["Instances"][0]["InstanceId"]
get_vm_node_id(raw) == raw.Instances[1].InstanceId

\* ------------------------------------------------------------- get_vm_node
\* Instances the describe_instances call of get_vm_node matches: the filter
\* is the Name tag only, on the client of the default region.
Tagged(n) ==
    {i \in 1..Len(instances) : instances[i].name = n /\ instances[i].region = DefaultRegion}

\* The possible Reservations lists of the response: every matching instance
\* once, in an order the provider chooses.
Responses(n) ==
    {r \in [1..Cardinality(Tagged(n)) -> Tagged(n)] :
        \A j, k \in DOMAIN r : j # k => r[j] # r[k]}

\* A locator that takes the front of the list: nodes.pop(0).
get_vm_node_first(resp) ==
    IF Len(resp) = 0 THEN None ELSE Reservation(resp[1])

\* return None if not nodes else nodes.pop()
get_vm_node(resp) ==
    IF Len(resp) = 0 THEN None ELSE Reservation(resp[Len(resp)])

\* ------------------------------------------------------------- create_vm
Idle == pc \in {"idle", "done", "raised"}

Raise(type, at) ==
    /\ pc' = "raised"
    /\ err' = [type |-> type, at |-> at]

\* Lines 63-65: the call starts; name validation; attempt = 0.
CreateVm(n, r) ==
    /\ Idle
    /\ name' = n
    /\ region' = r
    /\ attempt' = 0
    /\ nodes' = <<>>
    /\ node' = None
    /\ backoff_for' = 0
    /\ instance_id' = 0
    /\ result' = 0
    /\ sleeps' = <<>>
    /\ runCalls' = 0
    /\ liveAtCall' = {i \in 1..Len(instances) :
                        /\ instances[i].name = n
                        /\ instances[i].region = r
                        /\ instances[i].state = "running"}
    /\ IF is_valid_resource_name(n)
       THEN pc' = "locate" /\ err' = NoErr
       ELSE Raise("ValueError", "is_valid_resource_name")
    /\ UNCHANGED <<provider, probe>>

\* Lines 67-70 and 159: node = get_vm_node(name) and the branch on it.
Locate ==
    /\ pc = "locate"
    /\ \/ \* describe_instances fails; nothing in create_vm catches it
          /\ Raise("ClientError", "describe_instances")
          /\ UNCHANGED <<nodes, node>>
       \/ \E resp \in Responses(name) :
            /\ nodes' = resp
            /\ node' = get_vm_node(resp)
            /\ IF get_vm_node(resp) = None
               THEN pc' = "create" /\ err' = err
               ELSE LET st == get_vm_node_status(get_vm_node(resp))
                    IN  IF ~st.ok THEN Raise(st.value, "get_vm_node_status")
                        ELSE /\ pc' = IF st.value = "terminated" THEN "create"
                                      ELSE "exists"
                             /\ err' = err
    /\ UNCHANGED <<provider, probe, name, region, attempt, backoff_for, instance_id,
                   result, sleeps, runCalls, liveAtCall>>

\* Lines 71-80: the backoff before a creation attempt.  The logging call names
\* aws_settings, which vm.py neither defines nor imports.
Backoff ==
    /\ pc = "create"
    /\ IF attempt # 0
       THEN /\ backoff_for' = 2 ^ Min(attempt, 9)
            /\ Raise("NameError", "aws_settings")
       ELSE /\ backoff_for' = backoff_for
            /\ pc' = "security_group"
            /\ err' = err
    /\ UNCHANGED <<provider, probe, name, region, attempt, nodes, node, instance_id,
                   result, sleeps, runCalls, liveAtCall>>

Bump(f, r) == [f EXCEPT ![r] = @ + 1]

\* A membership test that never finds the group.
GroupNeverListed == FALSE

\* Lines 86-90: "axlearn-security-group" in security_groups_name, on the
\* client of the call's region.
GroupListed == region \in groups

\* Lines 84-120: describe the security groups of the region; reuse the group
\* when it is listed, else create it and authorize its ingress rules.  Each
\* provider call may fail with a ClientError, which line 155 raises again.
SecurityGroup ==
    /\ pc = "security_group"
    /\ \/ \* describe_security_groups fails
          /\ Raise("ClientError", "describe_security_groups")
          /\ UNCHANGED <<groups, sgCreated, sgIngressCalls>>
       \/ \* the group is listed: reuse it
          /\ GroupListed
          /\ pc' = "run_instances"
          /\ err' = err
          /\ UNCHANGED <<groups, sgCreated, sgIngressCalls>>
       \/ \* create_security_group fails
          /\ ~GroupListed
          /\ Raise("ClientError", "create_security_group")
          /\ UNCHANGED <<groups, sgCreated, sgIngressCalls>>
       \/ \* the group is created, authorize_security_group_ingress fails
          /\ ~GroupListed
          /\ groups' = groups \cup {region}
          /\ sgCreated' = Bump(sgCreated, region)
          /\ sgIngressCalls' = Bump(sgIngressCalls, region)
          /\ Raise("ClientError", "authorize_security_group_ingress")
       \/ \* both succeed
          /\ ~GroupListed
          /\ groups' = groups \cup {region}
          /\ sgCreated' = Bump(sgCreated, region)
          /\ sgIngressCalls' = Bump(sgIngressCalls, region)
          /\ pc' = "run_instances"
          /\ err' = err
    /\ UNCHANGED <<instances, probe, name, region, attempt, nodes, node, backoff_for,
                   instance_id, result, sleeps, runCalls, liveAtCall>>

\* run_instances asked for two instances (MinCount = MaxCount = 2).
RunInstancesTwo ==
    /\ pc = "run_instances"
    /\ runCalls' = runCalls + 1
    /\ \/ /\ Len(instances) + 2 <= MaxInstances
          /\ LET new == [name |-> name, region |-> region, state |-> "pending"]
             IN  instances' = Append(Append(instances, new), new)
          /\ instance_id' = Len(instances) + 1
          /\ pc' = "wait"
          /\ err' = err
       \/ /\ Raise("ClientError", "run_instances")
          /\ UNCHANGED <<instances, instance_id>>
    /\ UNCHANGED <<groups, sgCreated, sgIngressCalls, probe, name, region, attempt, nodes,
                   node, backoff_for, result, sleeps, liveAtCall>>

\* Lines 125-136 and 145-155: run_instances in the call's region, tagged with
\* the name; a ClientError is logged and raised again.
RunInstances ==
    /\ pc = "run_instances"
    /\ runCalls' = runCalls + 1
    /\ \/ /\ Len(instances) < MaxInstances
          /\ instances' = Append(instances,
                                 [name |-> name, region |-> region, state |-> "pending"])
          /\ instance_id' = Len(instances) + 1
          /\ pc' = "wait"
          /\ err' = err
       \/ /\ Raise("ClientError", "run_instances")
          /\ UNCHANGED <<instances, instance_id>>
    /\ UNCHANGED <<groups, sgCreated, sgIngressCalls, probe, name, region, attempt, nodes,
                   node, backoff_for, result, sleeps, liveAtCall>>

\* Lines 141-144 and 157: the instance_status_ok waiter returns once the
\* instance runs; then attempt += 1 and return instance_id.
WaitOk ==
    /\ pc = "wait"
    /\ instances[instance_id].state = "running"
    /\ attempt' = attempt + 1
    /\ result' = instance_id
    /\ pc' = "done"
    /\ UNCHANGED <<provider, probe, name, region, nodes, node, backoff_for, instance_id,
                   err, sleeps, runCalls, liveAtCall>>

\* Line 142: the waiter gives up (WaiterError is not a ClientError).
WaitFail ==
    /\ pc = "wait"
    /\ Raise("WaiterError", "waiter.wait")
    /\ UNCHANGED <<provider, probe, name, region, attempt, nodes, node, backoff_for,
                   instance_id, result, sleeps, runCalls, liveAtCall>>

\* Lines 160-168: the located VM runs; return its id.
ExistsRunning ==
    /\ pc = "exists"
    /\ get_vm_node_status(node).value = "running"
    /\ result' = get_vm_node_id(node)
    /\ pc' = "done"
    /\ UNCHANGED <<provider, probe, name, region, attempt, nodes, node, backoff_for,
                   instance_id, err, sleeps, runCalls, liveAtCall>>

\* A poll loop that falls through to creation instead of locating again.
ExistsWaitingThenCreate ==
    /\ pc = "exists"
    /\ get_vm_node_status(node).value # "running"
    /\ Len(sleeps) < MaxSleeps
    /\ sleeps' = Append(sleeps, 10)
    /\ pc' = "create"
    /\ UNCHANGED <<provider, probe, name, region, attempt, nodes, node, backoff_for,
                   instance_id, result, err, runCalls, liveAtCall>>

\* Lines 169-171: any other status; time.sleep(10) and loop.
ExistsWaiting ==
    /\ pc = "exists"
    /\ get_vm_node_status(node).value # "running"
    /\ Len(sleeps) < MaxSleeps
    /\ sleeps' = Append(sleeps, 10)
    /\ pc' = "locate"
    /\ UNCHANGED <<provider, probe, name, region, attempt, nodes, node, backoff_for,
                   instance_id, result, err, runCalls, liveAtCall>>

\* ---------------------------------------------------------------- provider
\* The provider moves an instance along its lifecycle.
InstanceTransition ==
    /\ \E i \in 1..Len(instances), t \in Lifecycle :
         /\ instances[i].state = t[1]
         /\ instances' = [instances EXCEPT ![i].state = t[2]]
    /\ UNCHANGED <<groups, sgCreated, sgIngressCalls, probe, pc, name, region, attempt,
                   nodes, node, backoff_for, instance_id, result, err, sleeps, runCalls,
                   liveAtCall>>

\* ------------------------------------------------------------ specification
InitCall ==
    /\ instances = <<>>
    /\ groups = {}
    /\ sgCreated = [r \in Regions |-> 0]
    /\ sgIngressCalls = [r \in Regions |-> 0]
    /\ pc = "idle"
    /\ name = <<>>
    /\ region = DefaultRegion
    /\ attempt = 0
    /\ nodes = <<>>
    /\ node = None
    /\ backoff_for = 0
    /\ instance_id = 0
    /\ result = 0
    /\ err = NoErr
    /\ sleeps = <<>>
    /\ runCalls = 0
    /\ liveAtCall = {}

Unset == [ok |-> FALSE, value |-> "unset"]

Init ==
    /\ InitCall
    /\ rawNode = None
    /\ rawStatus = Unset

Step ==
    \/ Locate
    \/ Backoff
    \/ SecurityGroup
    \/ RunInstances
    \/ WaitOk
    \/ WaitFail
    \/ ExistsRunning
    \/ ExistsWaiting

Next ==
    \/ \E n \in CallNames, r \in Regions : CreateVm(n, r)
    \/ Step
    \/ InstanceTransition

Spec == Init /\ [][Next]_vars

\* The lifecycle under the scheduling of the code: create_vm is one
\* sequential thread whose provider calls and sleeps return, so a step of the
\* running call that stays possible is eventually taken.
SpecFair == Spec /\ WF_vars(Step)

\* ----------------------------------------- name validation, on every name
NextNames == \E n \in AllNames, r \in Regions : CreateVm(n, r)

SpecNames == Init /\ [][NextNames]_vars

\* ------------------------------- get_vm_node_status, on every raw record
RawStateNames == ProviderStates \cup {"garbled"}
RawStates == {[Code |-> 0]} \cup {[Name |-> s] : s \in RawStateNames}
RawInstances == {[InstanceId |-> 1]} \cup {[InstanceId |-> 1, State |-> st] : st \in RawStates}
RawNodes == {[Instances |-> is] : is \in SeqsUpTo(RawInstances, MaxRawInstances)}

InitStatus ==
    /\ InitCall
    /\ rawNode \in RawNodes
    /\ rawStatus = Unset

StatusOf ==
    /\ rawStatus = Unset
    /\ rawStatus' = get_vm_node_status(rawNode)
    /\ UNCHANGED <<provider, pc, name, region, attempt, nodes, node, backoff_for,
                   instance_id, result, err, sleeps, runCalls, liveAtCall, rawNode>>

SpecStatus == InitStatus /\ [][StatusOf]_vars

\* ================================================================ properties
Ids == 1..Len(instances)
Last(q) == q[Len(q)]

\* ---- C1
\* C1 (as claimed): a ClientError of the create-instance call never makes
\* create_vm fail; the call backs off and locates again.
C1_CreateErrorIsRetried == ~(pc = "raised" /\ err.at = "run_instances")

C3_OneLiveInstancePerName ==
    \A i, j \in Ids :
        (i # j /\ instances[i].name = instances[j].name
               /\ instances[i].region = instances[j].region)
        => (instances[i].state = "terminated" \/ instances[j].state = "terminated")

\* ---- C4
\* C4 (as claimed): a call made while an instance of its name runs in its
\* region, and keeps running, issues no run_instances call and returns the id
\* of a running instance of that name.
C4_RunningIsIdempotent ==
    (\E i \in liveAtCall : instances[i].state = "running")
    => (runCalls = 0 /\ (pc = "done" => result \in liveAtCall))

\* ---- C5
\* C5: a call whose locator returned None and that returned has issued exactly
\* one run_instances call and returns the id of the instance that call
\* created, the newest one, tagged with the call's name in the call's region.
C5_AbsentCreatesOnce ==
    (pc = "done" /\ node = None)
    => /\ runCalls = 1
       /\ result = Len(instances)
       /\ instances[result].name = name
       /\ instances[result].region = region

C5_Witness == pc = "done" /\ node = None /\ nodes = <<>> /\ runCalls = 1 /\ result >= 1

\* ---- C6
Created(f) == {r \in Regions : f[r] > 0}

\* C6 (as claimed): over all invocations the group is created, and its ingress
\* authorized, at most once.
C6_GroupCreatedOnce ==
    /\ \A r \in Regions : sgCreated[r] <= 1 /\ sgIngressCalls[r] <= 1
    /\ Cardinality(Created(sgCreated)) <= 1
    /\ Cardinality(Created(sgIngressCalls)) <= 1

\* C6 (amended): in each region the group is created, and its ingress
\* authorized, at most once over all invocations.
C6_GroupCreatedOncePerRegion ==
    \A r \in Regions : sgCreated[r] <= 1 /\ sgIngressCalls[r] <= 1

\* A creation attempt in a region where an earlier attempt ran reuses the group.
C6_Witness ==
    /\ pc = "run_instances"
    /\ sgCreated[region] = 1
    /\ \E i \in Ids : instances[i].region = region

\* ---- C7
\* The pattern ^[a-z]([-a-z0-9]*[a-z0-9])?$ read as a description of the name.
MatchesPattern(n) ==
    /\ n # <<>>
    /\ Head(n) \in Lower
    /\ \A k \in DOMAIN n : n[k] \in Lower \cup Digit \cup {"-"}
    /\ Last(n) # "-"

\* C7: create_vm raises the invalid-name error exactly for the names that do
\* not match the pattern, and goes on to the locator for those that do.
C7_NameValidation ==
    pc # "idle" =>
        /\ MatchesPattern(name) <=> pc = "locate"
        /\ ~MatchesPattern(name) <=> (pc = "raised" /\ err.type = "ValueError")

C7_Witness == pc = "raised" /\ err.type = "ValueError" /\ name = <<"a", "-">>

\* ---- C8
Checked == rawStatus # Unset

Located == pc = "locate" /\ pc' \in {"create", "exists"}

\* C9 (as claimed): the locator returns None on an empty response and else
\* the first reservation of the response; the provider is left as it was.
C9_LocatorReturnsFirst ==
    [][Located =>
          /\ (node' = None) <=> (nodes' = <<>>)
          /\ nodes' # <<>> => get_vm_node_id(node') = Head(nodes')
          /\ UNCHANGED provider]_vars

\* C9 (amended): the locator returns None exactly when the response holds no
\* reservation for the name, and else the last reservation of the response;
\* the provider is left as it was.
C9_LocatorReturnsLast ==
    [][Located =>
          /\ (node' = None) <=> (nodes' = <<>>)
          /\ (nodes' = <<>>) <=> (Tagged(name) = {})
          /\ nodes' # <<>> =>
                /\ get_vm_node_id(node') = Last(nodes')
                /\ node' = Reservation(Last(nodes'))
          /\ UNCHANGED provider]_vars

C9_Witness ==
    /\ pc \in {"create", "exists"}
    /\ Len(nodes) = 2
    /\ node # None
    /\ get_vm_node_id(node) = nodes[2]

\* ---- C10
Transitional ==
    pc = "exists" /\ get_vm_node_status(node).value \notin {"running", "terminated"}
ReportedRunning ==
    pc = "exists" /\ get_vm_node_status(node).value = "running"
ReturnedLocated ==
    pc = "done" /\ node # None /\ runCalls = 0 /\ result = get_vm_node_id(node)

\* C10: while the located instance is neither running nor terminated the call
\* has issued no creation call, and its next step sleeps 10 seconds and goes
\* back to the locator, creating nothing; once the locator reports the
\* instance as running the call returns that instance's id.
C10_PollUntilRunning ==
    /\ [](pc = "exists" => runCalls = 0)
    /\ [][(Transitional /\ pc' # pc) =>
             /\ pc' = "locate"
             /\ sleeps' = Append(sleeps, 10)
             /\ UNCHANGED <<provider, runCalls, attempt>>]_vars
    /\ [][(ReportedRunning /\ pc' # pc) =>
             (pc' = "done" /\ result' = get_vm_node_id(node) /\ UNCHANGED provider)]_vars
    /\ (ReportedRunning ~> ReturnedLocated)

\* A call that polled once and then returned the instance it waited for.
C10_Witness == ReturnedLocated /\ sleeps = <<10>>

====
